---- MODULE Spec2Model ----
(***************************************************************************)
(* Model of the Olympus camera protocol client (src/camera.py) and of the  *)
(* way the GUI (src/app.py) constructs and uses it.                        *)
(*                                                                         *)
(* Representation of Python values:                                        *)
(*   str        a TLA+ string ("" also stands for an absent XML text).     *)
(*   dict       a sequence of [k, v] items in insertion order.             *)
(*   None       a record of the same shape as the value it stands for.     *)
(*   Element    [tag, attrib, text, children].                             *)
(***************************************************************************)
EXTENDS Integers, Sequences, FiniteSets, TLC

VARIABLES
    self,        \* the OlympusCamera object under construction (or NoObject)
    pc,          \* position of the running top-level operation
    camera,      \* MainWindow.camera: the session handed to the GUI
    connected,   \* MainWindow.connected
    call,        \* the most recent send_command call: [command, args]
    result,      \* how the most recent send_command / operation ended
    requests,    \* HTTP requests put on the wire by the running operation
    xml,         \* converter specification: the input element
    normalized   \* converter specification: xml_response of that element

vars == <<self, pc, camera, connected, call, result, requests, xml, normalized>>

\* Python evaluates an expression once and names its value:
\* Let(e, LAMBDA v : body) is body with v naming the value of e
Let(value, Body(_)) == CHOOSE out \in {Body(v) : v \in {value}} : TRUE

(***************************************************************************)
(* Strings                                                                 *)
(***************************************************************************)
WhiteSpace == {" ", "\t", "\r", "\n"}

\* s[i-1:i]
Char(s, i) == SubSeq(s, i, i)

\* s[i-1:]
From(s, i) == SubSeq(s, i, Len(s))

\* s.startswith(prefix)
startswith(s, prefix) ==
    Len(s) >= Len(prefix) /\ SubSeq(s, 1, Len(prefix)) = prefix

\* the least i in lo..hi+1 that is hi+1 or satisfies Stop
First(lo, hi, Stop(_)) ==
    CHOOSE i \in lo..(hi + 1) :
        /\ i = hi + 1 \/ Stop(i)
        /\ \A j \in lo..(i - 1) : ~Stop(j)

\* the greatest i in lo-1..hi that is lo-1 or satisfies Stop
Last(lo, hi, Stop(_)) ==
    CHOOSE i \in (lo - 1)..hi :
        /\ i = lo - 1 \/ Stop(i)
        /\ \A j \in (i + 1)..hi : ~Stop(j)

lstrip(s) == From(s, First(1, Len(s), LAMBDA i : Char(s, i) \notin WhiteSpace))

rstrip(s) == SubSeq(s, 1, Last(1, Len(s), LAMBDA i : Char(s, i) \notin WhiteSpace))

\* str.strip()
strip(s) == rstrip(lstrip(s))

RECURSIVE replace_crlf(_)
\* str.replace('\r\n', ''): every occurrence, from the left
replace_crlf(s) ==
    IF Len(s) < 2 THEN s
    ELSE Let(First(1, Len(s) - 1, LAMBDA i : SubSeq(s, i, i + 1) = "\r\n"), LAMBDA at :
             IF at > Len(s) - 1 THEN s
             ELSE SubSeq(s, 1, at - 1) \o replace_crlf(From(s, at + 2)))

RECURSIVE split(_)
\* str.split(): the words between runs of white space
split(s) ==
    Let(lstrip(s), LAMBDA t :
        IF t = "" THEN <<>>
        ELSE Let(First(1, Len(t), LAMBDA i : Char(t, i) \in WhiteSpace), LAMBDA end :
                 <<SubSeq(t, 1, end - 1)>> \o split(From(t, end))))

RECURSIVE join(_, _)
\* sep.join(strings)
join(sep, strings) ==
    IF strings = <<>> THEN ""
    ELSE IF Len(strings) = 1 THEN strings[1]
    ELSE strings[1] \o sep \o join(sep, Tail(strings))

(***************************************************************************)
(* dict: insertion-ordered items                                           *)
(***************************************************************************)
DictKeys(d) == [i \in 1..Len(d) |-> d[i].k]

DictHas(d, key) == \E i \in 1..Len(d) : d[i].k = key

DictGet(d, key) == d[CHOOSE i \in 1..Len(d) : d[i].k = key].v

\* faulty variant of DictSet: an existing key keeps its value
DictSet_setdefault(d, key, value) ==
    IF DictHas(d, key) THEN d ELSE Append(d, [k |-> key, v |-> value])

\* d[key] = value: an existing key keeps its place
DictSet(d, key, value) ==
    IF DictHas(d, key)
    THEN [i \in 1..Len(d) |-> IF d[i].k = key THEN [k |-> key, v |-> value] ELSE d[i]]
    ELSE Append(d, [k |-> key, v |-> value])

\* del d[key]
DictDel(d, key) == SelectSeq(d, LAMBDA it : it.k # key)

\* dict equality does not depend on the order of the items
DictEq(d, e) ==
    /\ Len(d) = Len(e)
    /\ \A i \in 1..Len(d) : DictHas(e, d[i].k) /\ DictGet(e, d[i].k) = d[i].v

(***************************************************************************)
(* XML elements, as xml.etree.ElementTree presents them                    *)
(***************************************************************************)
Element(tag, attrib, text, children) ==
    [tag |-> tag, attrib |-> attrib, text |-> text, children |-> children]

\* an element without attributes
El(tag, text, children) == Element(tag, <<>>, text, children)

NoElement == Element("", <<>>, "", <<>>)

(***************************************************************************)
(* XML Tree Converter                                                      *)
(***************************************************************************)
RECURSIVE xml2dict(_, _)
RECURSIVE xml2dict_children(_, _, _)

\* the loop of xml2dict over the children, threading results and params
xml2dict_children(elems, results, params) ==
    IF elems = <<>> THEN [results |-> results, params |-> params]
    ELSE Let(xml2dict(Head(elems), params), LAMBDA r :
         Let(Tail(elems), LAMBDA rest :
         Let(results \o r.results, LAMBDA collected :
             xml2dict_children(rest, collected, r.parent))))

\* faulty variant of xml2dict: an element's own group is put before the
\* groups of its descendants
xml2dict_own_first(elem, parent) ==
    Let(strip(elem.text), LAMBDA text :
        IF text # ""
        THEN [results |-> <<>>, parent |-> DictSet(parent, elem.tag, text)]
        ELSE Let(xml2dict_children(elem.children, <<>>, <<>>), LAMBDA loop :
                 [results |-> IF loop.params # <<>>
                              THEN <<loop.params>> \o loop.results
                              ELSE loop.results,
                  parent  |-> parent]))

\* returns the list of groups and the (mutated) parent mapping
xml2dict(elem, parent) ==
    Let(strip(elem.text), LAMBDA text :
        IF text # ""
        THEN [results |-> <<>>, parent |-> DictSet(parent, elem.tag, text)]
        ELSE Let(xml2dict_children(elem.children, <<>>, <<>>), LAMBDA loop :
                 [results |-> IF loop.params # <<>>
                              THEN Append(loop.results, loop.params)
                              ELSE loop.results,
                  parent  |-> parent]))

\* Normalized Response Values
NoneValue == [kind |-> "none", dict |-> <<>>, list |-> <<>>]
DictValue(d) == [kind |-> "dict", dict |-> d, list |-> <<>>]
ListValue(l) == [kind |-> "list", dict |-> <<>>, list |-> l]

\* faulty variant of xml_collapse: the groups are returned as they are, a
\* single group as a one-element list
xml_collapse_uncollapsed(root) ==
    Let(xml2dict(root, <<>>), LAMBDA r :
        IF r.results # <<>> THEN ListValue(r.results) ELSE DictValue(r.parent))

\* the collapse of xml_response, applied to the parsed root
xml_collapse(root) ==
    Let(xml2dict(root, <<>>), LAMBDA r :
        IF r.results # <<>>
        THEN IF Len(r.results) = 1 THEN DictValue(r.results[1])
                                   ELSE ListValue(r.results)
        ELSE DictValue(r.parent))

(***************************************************************************)
(* Responses of the device, as the requests library presents them          *)
(***************************************************************************)
\* tree is what ElementTree.fromstring(text) gives: the root, or a ParseError
Response(status_code, content_type, text, tree) ==
    [status_code |-> status_code,
     headers     |-> IF content_type = "" THEN <<>>
                     ELSE <<[k |-> "Content-Type", v |-> content_type]>>,
     text        |-> text,
     tree        |-> tree]

Parsed(root) == [ok |-> TRUE, root |-> root]
ParseError == [ok |-> FALSE, root |-> NoElement]

NoResponse == Response(0, "", "", ParseError)

\* outcome of an expression that may raise: exc = "" means it returned
Returned(value) == [exc |-> "", value |-> value]
Raised(exc) == [exc |-> exc, value |-> NoneValue]

\* xml_response: None unless the response is declared text/xml
xml_response(response) ==
    IF DictHas(response.headers, "Content-Type")
       /\ DictGet(response.headers, "Content-Type") = "text/xml"
    THEN IF response.tree.ok THEN Returned(xml_collapse(response.tree.root))
                             ELSE Raised("ParseError")
    ELSE Returned(NoneValue)

(***************************************************************************)
(* Command Schema: nodes and the discovery build                           *)
(***************************************************************************)
ANY_PARAMETER == "*"

\* a Validation Node: None, or a dict from token to node
NoneNode == [null |-> TRUE, entries |-> <<>>]
MapNode(entries) == [null |-> FALSE, entries |-> entries]

\* faulty variant of EMPTY_PARAMETERS: no parameters give None
EMPTY_PARAMETERS_none == NoneNode

EMPTY_PARAMETERS == MapNode(<<[k |-> ANY_PARAMETER, v |-> NoneNode]>>)

CmdDescr(method, args) == [method |-> method, args |-> args]

Built(node) == [exc |-> "", node |-> node]
BuildRaised(exc) == [exc |-> exc, node |-> NoneNode]

RECURSIVE commandlist_params(_)
RECURSIVE commandlist_cmds(_)
RECURSIVE params_loop(_, _)
RECURSIVE cmds_loop(_, _)

\* the loop of commandlist_params over the remaining children
params_loop(elems, params) ==
    IF elems = <<>>
    THEN Built(IF Len(params) > 0 THEN MapNode(params) ELSE EMPTY_PARAMETERS)
    ELSE Let(Head(elems), LAMBDA param :
         IF startswith(param.tag, "cmd")
         THEN IF ~DictHas(param.attrib, "name") THEN BuildRaised("KeyError")
              ELSE Let(commandlist_params(param), LAMBDA sub :
                   IF sub.exc # "" THEN sub
                   ELSE Built(MapNode(<<[k |-> ANY_PARAMETER,
                                         v |-> MapNode(<<[k |-> strip(DictGet(param.attrib, "name")),
                                                          v |-> sub.node]>>)]>>)))
         ELSE Let(commandlist_cmds(param), LAMBDA sub :
              IF sub.exc # "" THEN sub
              ELSE Let(Tail(elems), LAMBDA rest :
                   Let(DictSet(params,
                               IF DictHas(param.attrib, "name")
                               THEN strip(DictGet(param.attrib, "name"))
                               ELSE ANY_PARAMETER,
                               sub.node), LAMBDA grown :
                       params_loop(rest, grown)))))

\* faulty variant of commandlist_params: no declarations give the empty
\* mapping, not the wildcard-only node
commandlist_params_bare(parent) ==
    Let(params_loop(parent.children, <<>>), LAMBDA r :
        IF r.exc = "" /\ r.node = EMPTY_PARAMETERS THEN Built(MapNode(<<>>)) ELSE r)

commandlist_params(parent) == params_loop(parent.children, <<>>)

\* the loop of commandlist_cmds over the remaining children
cmds_loop(elems, cmds) ==
    IF elems = <<>>
    THEN Built(IF cmds # <<>> THEN MapNode(cmds) ELSE NoneNode)
    ELSE Let(Head(elems), LAMBDA cmd :
         IF ~startswith(cmd.tag, "cmd") THEN BuildRaised("AssertionError")
         ELSE Let(commandlist_params(cmd), LAMBDA sub :
              IF sub.exc # "" THEN sub
              ELSE IF ~DictHas(cmd.attrib, "name") THEN BuildRaised("KeyError")
              ELSE Let(Tail(elems), LAMBDA rest :
                   Let(DictSet(cmds, strip(DictGet(cmd.attrib, "name")), sub.node),
                       LAMBDA grown : cmds_loop(rest, grown)))))

\* faulty variant of commandlist_cmds: no commands give the empty mapping
commandlist_cmds_empty(parent) ==
    Let(cmds_loop(parent.children, <<>>), LAMBDA r :
        IF r.exc = "" /\ r.node.null THEN Built(MapNode(<<>>)) ELSE r)

commandlist_cmds(parent) == cmds_loop(parent.children, <<>>)

(***************************************************************************)
(* Request Validator                                                       *)
(***************************************************************************)
\* argument values: str or bytes
StrVal(s) == [type |-> "str", s |-> s]
BytesVal(s) == [type |-> "bytes", s |-> s]

\* f'{value}'
Fmt(value) == IF value.type = "bytes" THEN "b'" \o value.s \o "'" ELSE value.s

\* f'{type(value)}'
FmtType(value) == "<class '" \o value.type \o "'>"

\* token in node (node is a dict); bytes equal no str key
InNode(node, value) == value.type = "str" /\ DictHas(node.entries, value.s)

Valid == [exc |-> "", err |-> "", listing |-> <<>>, msg |-> ""]
Invalid(exc, err, listing, msg) ==
    [exc |-> exc, err |-> err, listing |-> listing, msg |-> msg]

\* the key check_valid_command treats as the request body
BODY_KEY == "post_date"

\* faulty variant of Descend: the wildcard entry is preferred to the literal
Descend_wildcard_first(node, has_token, token) ==
    IF DictHas(node.entries, ANY_PARAMETER)
    THEN [found |-> TRUE, node |-> DictGet(node.entries, ANY_PARAMETER)]
    ELSE IF has_token THEN [found |-> TRUE, node |-> DictGet(node.entries, token)]
    ELSE [found |-> FALSE, node |-> NoneNode]

\* one descent of the current node on a token: the literal entry, else the
\* wildcard entry; found = FALSE when the node has neither
Descend(node, has_token, token) ==
    IF has_token THEN [found |-> TRUE, node |-> DictGet(node.entries, token)]
    ELSE IF DictHas(node.entries, ANY_PARAMETER)
    THEN [found |-> TRUE, node |-> DictGet(node.entries, ANY_PARAMETER)]
    ELSE [found |-> FALSE, node |-> NoneNode]

RECURSIVE validate_pairs_restarting(_, _, _, _)
\* faulty variant of validate_pairs: the current node is not advanced from
\* one pair to the next, every pair descends from the same node
validate_pairs_restarting(command, method, items, valid_command_arguments) ==
    IF items = <<>> THEN Valid
    ELSE
    Let(Head(items).k, LAMBDA key :
    Let(Head(items).v, LAMBDA value :
    Let(key \o "=" \o Fmt(value), LAMBDA pair :
    IF valid_command_arguments.null
    THEN Invalid("RequestError", "unsupported_parameter", <<>>,
                 "Error in " \o command \o ": '" \o key \o "' in " \o pair
                 \o " not supported.")
    ELSE
    Let(Descend(valid_command_arguments,
                DictHas(valid_command_arguments.entries, key), key), LAMBDA named :
    IF ~named.found
    THEN Invalid("RequestError", "unsupported_parameter",
                 DictKeys(valid_command_arguments.entries),
                 "Error in " \o command \o ": '" \o key \o "' in " \o pair
                 \o " not supported; supported: "
                 \o join(", ", DictKeys(valid_command_arguments.entries)) \o ".")
    ELSE
    Let(Descend(named.node, InNode(named.node, value), value.s), LAMBDA valued :
    IF ~valued.found
    THEN Invalid("RequestError", "unsupported_value", DictKeys(named.node.entries),
                 "Error in " \o command \o ": '" \o Fmt(value) \o "' in " \o pair
                 \o " not supported; supported:"
                 \o join(", ", [i \in 1..Len(named.node.entries) |->
                                   key \o "=" \o named.node.entries[i].k]) \o ".")
    ELSE validate_pairs_restarting(command, method, Tail(items),
                                   valid_command_arguments))))))

RECURSIVE validate_pairs(_, _, _, _)
\* the loop of check_valid_command over the remaining items of args, with
\* valid_command_arguments as the current node
validate_pairs(command, method, items, valid_command_arguments) ==
    IF items = <<>> THEN Valid
    ELSE
    Let(Head(items).k, LAMBDA key :
    Let(Head(items).v, LAMBDA value :
    Let(Tail(items), LAMBDA rest :
    Let(key \o "=" \o Fmt(value), LAMBDA pair :
    IF key = BODY_KEY /\ method = "post"
    THEN IF value.type # "bytes"
         THEN Invalid("RequestError", "payload_type", <<>>,
                      "Error in " \o command \o ": data for method 'post' is of type '"
                      \o FmtType(value) \o "'; type 'bytes' expected.")
         ELSE validate_pairs(command, method, rest, valid_command_arguments)
    ELSE IF valid_command_arguments.null
    THEN Invalid("RequestError", "unsupported_parameter", <<>>,
                 "Error in " \o command \o ": '" \o key \o "' in " \o pair
                 \o " not supported.")
    ELSE
    Let(Descend(valid_command_arguments,
                DictHas(valid_command_arguments.entries, key), key), LAMBDA named :
    IF ~named.found
    THEN Invalid("RequestError", "unsupported_parameter",
                 DictKeys(valid_command_arguments.entries),
                 "Error in " \o command \o ": '" \o key \o "' in " \o pair
                 \o " not supported; supported: "
                 \o join(", ", DictKeys(valid_command_arguments.entries)) \o ".")
    ELSE IF named.node.null
    THEN Invalid("TypeError", "not_iterable", <<>>,
                 "argument of type 'NoneType' is not iterable")
    ELSE
    Let(Descend(named.node, InNode(named.node, value), value.s), LAMBDA valued :
    IF ~valued.found
    THEN Invalid("RequestError", "unsupported_value", DictKeys(named.node.entries),
                 "Error in " \o command \o ": '" \o Fmt(value) \o "' in " \o pair
                 \o " not supported; supported:"
                 \o join(", ", [i \in 1..Len(named.node.entries) |->
                                   key \o "=" \o named.node.entries[i].k]) \o ".")
    ELSE validate_pairs(command, method, rest, valued.node)))))))

check_valid_command(commands, command, args) ==
    IF ~DictHas(commands, command)
    THEN Invalid("RequestError", "unsupported_command", DictKeys(commands),
                 "Error: command " \o command \o " not supported; valid commands: "
                 \o join(",", DictKeys(commands)))
    ELSE Let(DictGet(commands, command), LAMBDA descr :
             validate_pairs(command, descr.method, args, descr.args))

(***************************************************************************)
(* Transport                                                               *)
(***************************************************************************)
HEADERS == <<[k |-> "Host", v |-> "192.168.0.10"],
             [k |-> "User-Agent", v |-> "OI.Share v2"]>>

NoData == [type |-> "none", s |-> ""]

Request(method, url, headers, params, data) ==
    [method |-> method, url |-> url, headers |-> headers,
     params |-> params, data |-> data]

NoRequest == Request("", "", <<>>, <<>>, NoData)

\* requests.codes.ok, requests.codes.accepted
codes_ok == 200
codes_accepted == 202

\* what the network does with one request: no answer, or a response
Unreachable == [unreachable |-> TRUE, response |-> NoResponse]
Answer(response) == [unreachable |-> FALSE, response |-> response]

\* how a send_command call ends: exc = "" means it returned response
Outcome(exc, err, listing, msg, request, response) ==
    [exc |-> exc, err |-> err, listing |-> listing, msg |-> msg,
     request |-> request, response |-> response]

\* faulty variant of error_message: the raw text whatever the body is
error_message_raw(err_xml, response) == replace_crlf(response.text)

\* the message part of a ResultError
error_message(err_xml, response) ==
    IF err_xml.kind = "dict"
    THEN join(", ", [i \in 1..Len(err_xml.dict) |->
                        err_xml.dict[i].k \o "=" \o err_xml.dict[i].v])
    ELSE replace_crlf(response.text)

\* requests.get / requests.post, then the interpretation of the response
exchange(request, device) ==
    IF device.unreachable
    THEN Outcome("ConnectionError", "", <<>>, "", request, NoResponse)
    ELSE IF device.response.status_code \in {codes_ok, codes_accepted}
    THEN Outcome("", "", <<>>, "", request, device.response)
    ELSE Let(xml_response(device.response), LAMBDA err_xml :
         IF err_xml.exc # ""
         THEN Outcome(err_xml.exc, "", <<>>, "", request, device.response)
         ELSE Outcome("ResultError", "", <<>>,
                      error_message(err_xml.value, device.response),
                      request, device.response))

\* faulty variant of build_request: the header mapping is not copied, the
\* headers of the request before are those of the next
build_request_shared(obj, command, args) ==
    Let(IF result.request # NoRequest THEN result.request.headers ELSE HEADERS,
        LAMBDA shared :
    Let(DictGet(obj.commands, command).method, LAMBDA method :
    Let(obj.URL_PREFIX \o command \o ".cgi", LAMBDA url :
    IF method = "get"
    THEN [exc |-> "", err |-> "", msg |-> "",
          request |-> Request("get", url, shared, args, NoData)]
    ELSE IF method # "post"
    THEN [exc |-> "AssertionError", err |-> "", msg |-> "", request |-> NoRequest]
    ELSE IF ~DictHas(args, "post_data")
    THEN [exc |-> "RequestError", err |-> "missing_post_data",
          msg |-> "Error in '" \o command \o "' with args '"
                  \o join(", ", [i \in 1..Len(args) |->
                                    args[i].k \o "=" \o Fmt(args[i].v)])
                  \o "': missing entry 'post_data' for method 'post'.",
          request |-> NoRequest]
    ELSE
    Let(DictGet(args, "post_data"), LAMBDA post_data :
        [exc |-> "", err |-> "", msg |-> "",
         request |->
            Request("post", url,
                    IF post_data.type = "bytes" /\ Len(post_data.s) > 6
                       /\ SubSeq(post_data.s, 1, 6) = "<?xml "
                    THEN DictSet(shared, "Content-type", "text/plain;charset=utf-8")
                    ELSE shared,
                    DictDel(args, "post_data"), post_data)]))))

\* the request send_command builds once the call is found valid; exc # ""
\* when it raises instead
build_request(obj, command, args) ==
    Let(DictGet(obj.commands, command).method, LAMBDA method :
    Let(obj.URL_PREFIX \o command \o ".cgi", LAMBDA url :
    IF method = "get"
    THEN [exc |-> "", err |-> "", msg |-> "",
          request |-> Request("get", url, HEADERS, args, NoData)]
    ELSE IF method # "post"
    THEN [exc |-> "AssertionError", err |-> "", msg |-> "", request |-> NoRequest]
    ELSE IF ~DictHas(args, "post_data")
    THEN [exc |-> "RequestError", err |-> "missing_post_data",
          msg |-> "Error in '" \o command \o "' with args '"
                  \o join(", ", [i \in 1..Len(args) |->
                                    args[i].k \o "=" \o Fmt(args[i].v)])
                  \o "': missing entry 'post_data' for method 'post'.",
          request |-> NoRequest]
    ELSE
    Let(DictGet(args, "post_data"), LAMBDA post_data :
        [exc |-> "", err |-> "", msg |-> "",
         request |->
            Request("post", url,
                    IF post_data.type = "bytes" /\ Len(post_data.s) > 6
                       /\ SubSeq(post_data.s, 1, 6) = "<?xml "
                    THEN DictSet(HEADERS, "Content-type", "text/plain;charset=utf-8")
                    ELSE HEADERS,
                    DictDel(args, "post_data"), post_data)])))

\* faulty variant of send_command: the arguments are validated only after
\* the request has gone out
send_command_late_check(obj, command, args, device) ==
    IF ~DictHas(obj.commands, command)
    THEN Let(check_valid_command(obj.commands, command, args), LAMBDA check :
             Outcome(check.exc, check.err, check.listing, check.msg,
                     NoRequest, NoResponse))
    ELSE Let(build_request(obj, command, args), LAMBDA built :
         IF built.exc # ""
         THEN Outcome(built.exc, built.err, <<>>, built.msg, NoRequest, NoResponse)
         ELSE Let(exchange(built.request, device), LAMBDA sent :
              Let(check_valid_command(obj.commands, command, args), LAMBDA check :
                  IF check.exc # ""
                  THEN Outcome(check.exc, check.err, check.listing, check.msg,
                               built.request, sent.response)
                  ELSE sent)))

send_command(obj, command, args, device) ==
    Let(check_valid_command(obj.commands, command, args), LAMBDA check :
    IF check.exc # ""
    THEN Outcome(check.exc, check.err, check.listing, check.msg, NoRequest, NoResponse)
    ELSE Let(build_request(obj, command, args), LAMBDA built :
         IF built.exc # ""
         THEN Outcome(built.exc, built.err, <<>>, built.msg, NoRequest, NoResponse)
         ELSE exchange(built.request, device)))

\* xml_query: the normalized value, or the exception of either step
xml_query(obj, command, args, device) ==
    Let(send_command(obj, command, args, device), LAMBDA sent :
    IF sent.exc # "" THEN [exc |-> sent.exc, value |-> NoneValue, sent |-> sent]
    ELSE Let(xml_response(sent.response), LAMBDA v :
             [exc |-> v.exc, value |-> v.value, sent |-> sent]))

(***************************************************************************)
(* Camera Session: the object and its construction                         *)
(***************************************************************************)
\* an attribute that is not set yet / set to a dict
Unset == [defined |-> FALSE, items |-> <<>>]
Defined(items) == [defined |-> TRUE, items |-> items]

DEFAULT_URL_PREFIX == "http:/192.168.0.10/"

Object(prefix, versions, supported, camera_info, commands, camprop) ==
    [URL_PREFIX |-> prefix, versions |-> versions, supported |-> supported,
     camera_info |-> camera_info, commands |-> commands,
     camprop_name2values |-> camprop]

\* Python's None where an OlympusCamera is expected
NoObject == Object("", <<>>, {}, NoneValue, <<>>, Unset)

\* the bootstrap schema: only the discovery command
SeedCommands == <<[k |-> "get_commandlist", v |-> CmdDescr("get", NoneNode)]>>

\* __init__ up to the discovery dispatch
NewObject(prefix) ==
    Object(IF prefix # "" THEN prefix ELSE DEFAULT_URL_PREFIX,
           <<>>, {}, NoneValue, SeedCommands, Unset)

ObjOk(obj) == [exc |-> "", obj |-> obj]
ObjRaised(exc, obj) == [exc |-> exc, obj |-> obj]

RECURSIVE methods_loop(_, _, _)
\* the loop over the children of one cgi element
methods_loop(obj, cgi, elems) ==
    IF elems = <<>> THEN ObjOk(obj)
    ELSE
    Let(Head(elems), LAMBDA http_method :
    Let(Tail(elems), LAMBDA rest :
    IF http_method.tag # "http_method" THEN methods_loop(obj, cgi, rest)
    ELSE IF ~DictHas(http_method.attrib, "type") THEN ObjRaised("KeyError", obj)
    ELSE Let(commandlist_cmds(http_method), LAMBDA args :
         IF args.exc # "" THEN ObjRaised(args.exc, obj)
         ELSE IF ~DictHas(cgi.attrib, "name") THEN ObjRaised("KeyError", obj)
         ELSE Let([obj EXCEPT !.commands =
                      DictSet(@, DictGet(cgi.attrib, "name"),
                              CmdDescr(DictGet(http_method.attrib, "type"),
                                       args.node))], LAMBDA grown :
                  methods_loop(grown, cgi, rest)))))

RECURSIVE discovery_loop(_, _)
\* the loop over the top-level elements of the discovery response
discovery_loop(obj, elems) ==
    IF elems = <<>> THEN ObjOk(obj)
    ELSE
    Let(Head(elems), LAMBDA elem :
    Let(Tail(elems), LAMBDA rest :
    IF elem.tag = "cgi"
    THEN Let(methods_loop(obj, elem, elem.children), LAMBDA r :
             IF r.exc # "" THEN r ELSE discovery_loop(r.obj, rest))
    ELSE IF elem.tag = "support"
    THEN IF ~DictHas(elem.attrib, "func") THEN ObjRaised("KeyError", obj)
         ELSE Let([obj EXCEPT !.supported = @ \cup {DictGet(elem.attrib, "func")}],
                  LAMBDA grown : discovery_loop(grown, rest))
    ELSE IF elem.tag = "version"
    THEN IF elem.text = "" THEN ObjRaised("AttributeError", obj)
         ELSE Let([obj EXCEPT !.versions = DictSet(@, elem.tag, strip(elem.text))],
                  LAMBDA grown : discovery_loop(grown, rest))
    ELSE discovery_loop(obj, rest)))

\* a step of __init__: exc = "" and early = FALSE means it goes on
Step(exc, early, obj, sent) ==
    [exc |-> exc, early |-> early, obj |-> obj, sent |-> sent]

\* faulty variant of init_discovery: a discovery that gets no answer ends
\* construction quietly
init_discovery_quiet(obj, device) ==
    Let(send_command(obj, "get_commandlist", <<>>, device), LAMBDA sent :
    IF sent.exc = "ConnectionError" THEN Step("", TRUE, obj, sent)
    ELSE IF sent.exc # "" THEN Step(sent.exc, FALSE, obj, sent)
    ELSE IF ~sent.response.tree.ok THEN Step("ParseError", FALSE, obj, sent)
    ELSE Let(discovery_loop(obj, sent.response.tree.root.children), LAMBDA r :
             Step(r.exc, FALSE, r.obj, sent)))

\* the discovery dispatch and the schema build
init_discovery(obj, device) ==
    Let(send_command(obj, "get_commandlist", <<>>, device), LAMBDA sent :
    IF sent.exc # "" THEN Step(sent.exc, FALSE, obj, sent)
    ELSE IF sent.response = NoResponse THEN Step("", TRUE, obj, sent)
    ELSE IF ~sent.response.tree.ok THEN Step("ParseError", FALSE, obj, sent)
    ELSE Let(discovery_loop(obj, sent.response.tree.root.children), LAMBDA r :
             Step(r.exc, FALSE, r.obj, sent)))

\* faulty variant of init_caminfo: validated against the bootstrap schema
init_caminfo_seeded(obj, device) ==
    Let(xml_query([obj EXCEPT !.commands = SeedCommands], "get_caminfo", <<>>, device),
        LAMBDA q :
    IF q.exc # "" THEN Step(q.exc, FALSE, obj, q.sent)
    ELSE Step("", FALSE, [obj EXCEPT !.camera_info = q.value], q.sent))

\* self.camera_info = self.xml_query('get_caminfo')
init_caminfo(obj, device) ==
    Let(xml_query(obj, "get_caminfo", <<>>, device), LAMBDA q :
    IF q.exc # "" THEN Step(q.exc, FALSE, obj, q.sent)
    ELSE Step("", FALSE, [obj EXCEPT !.camera_info = q.value], q.sent))

ModeArgs(mode) == <<[k |-> "mode", v |-> StrVal(mode)]>>

\* self.send_command('switch_cammode', mode=...)
init_switch(obj, mode, device) ==
    Let(send_command(obj, "switch_cammode", ModeArgs(mode), device), LAMBDA sent :
        Step(sent.exc, FALSE, obj, sent))

DescArgs == <<[k |-> "com", v |-> StrVal("desc")],
              [k |-> "propname", v |-> StrVal("desclist")]>>

RECURSIVE camprop_loop(_, _)
\* the dict comprehension over the property descriptions
camprop_loop(props, acc) ==
    IF props = <<>> THEN [exc |-> "", items |-> acc]
    ELSE
    Let(Head(props), LAMBDA prop :
    Let(Tail(props), LAMBDA rest :
    IF ~DictHas(prop, "attribute") THEN [exc |-> "KeyError", items |-> acc]
    ELSE IF DictGet(prop, "attribute") = "getset" /\ DictHas(prop, "enum")
    THEN IF ~DictHas(prop, "propname") THEN [exc |-> "KeyError", items |-> acc]
         ELSE Let(DictSet(acc, DictGet(prop, "propname"), split(DictGet(prop, "enum"))),
                  LAMBDA grown : camprop_loop(rest, grown))
    ELSE camprop_loop(rest, acc)))

\* iterating the normalized value: a list gives its groups, a dict its keys
\* (subscripting a key with a str raises), None is not iterable
camprop_of(value) ==
    IF value.kind = "list" THEN camprop_loop(value.list, <<>>)
    ELSE IF value.kind = "dict" /\ value.dict = <<>> THEN [exc |-> "", items |-> <<>>]
    ELSE [exc |-> "TypeError", items |-> <<>>]

\* self.camprop_name2values = {... self.xml_query('get_camprop', ...) ...}
init_camprop(obj, device) ==
    Let(xml_query(obj, "get_camprop", DescArgs, device), LAMBDA q :
    IF q.exc # "" THEN Step(q.exc, FALSE, obj, q.sent)
    ELSE Let(camprop_of(q.value), LAMBDA c :
         IF c.exc # "" THEN Step(c.exc, FALSE, obj, q.sent)
         ELSE Step("", FALSE, [obj EXCEPT !.camprop_name2values = Defined(c.items)],
                   q.sent)))

(***************************************************************************)
(* The device: the documents it may answer with                            *)
(***************************************************************************)
Attr(name, value) == <<[k |-> name, v |-> value]>>

RECURSIVE Serialize(_)
RECURSIVE SerializeAll(_)
\* the text whose parse is elem
Serialize(elem) ==
    "<" \o elem.tag
    \o join("", [i \in 1..Len(elem.attrib) |->
                    " " \o elem.attrib[i].k \o "=\"" \o elem.attrib[i].v \o "\""])
    \o ">" \o elem.text \o SerializeAll(elem.children) \o "</" \o elem.tag \o ">"

SerializeAll(elems) ==
    IF elems = <<>> THEN "" ELSE Serialize(Head(elems)) \o SerializeAll(Tail(elems))

XmlResponse(status_code, root) ==
    Response(status_code, "text/xml", Serialize(root), Parsed(root))

Cgi(name, methods) == Element("cgi", Attr("name", name), "", methods)
Method(type, cmds) == Element("http_method", Attr("type", type), "", cmds)
Cmd(tag, name, params) == Element(tag, Attr("name", name), "", params)
Param(tag, name, cmds) == Element(tag, Attr("name", name), "", cmds)
ParamAny(tag, cmds) == Element(tag, <<>>, "", cmds)

CgiCaminfo == Cgi("get_caminfo", <<Method("get", <<>>)>>)

CgiSwitch ==
    Cgi("switch_cammode",
        <<Method("get", <<Cmd("cmd1", "mode",
                              <<Param("param1", "rec", <<>>),
                                Param("param1", "play", <<>>),
                                Param("param1", "shutter", <<>>)>>)>>)>>)

\* com=desc gates propname=desclist, com=get takes any propname, and any
\* other com is accepted without further arguments
CgiCamprop ==
    Cgi("get_camprop",
        <<Method("get",
            <<Cmd("cmd1", "com",
                  <<Param("param1", "desc",
                          <<Cmd("cmd2", "propname",
                                <<Param("param2", "desclist", <<>>)>>)>>),
                    Param("param1", " get ",
                          <<Cmd("cmd2", "propname", <<>>)>>),
                    ParamAny("param1", <<>>)>>)>>)>>)

CgiSetCamprop ==
    Cgi("set_camprop",
        <<Method("post",
            <<Cmd("cmd1", "com",
                  <<Param("param1", "set",
                          <<Cmd("cmd2", "propname", <<>>)>>)>>)>>)>>)

\* utctime=<any> then diff=<any>: a sub-command below a command
CgiUtc ==
    Cgi("set_utctimediff",
        <<Method("get", <<Cmd("cmd1", "utctime", <<Cmd("cmd2", "diff", <<>>)>>)>>)>>)

CgiStore == Cgi("exec_storefirmware", <<Method("post", <<>>)>>)

\* a command group that declares the body as a parameter of its own
CgiPut == Cgi("put_data", <<Method("post", <<Cmd("cmd1", "post_data", <<>>)>>)>>)

\* the mode command: mode=rec or mode=play
CgiSetMode ==
    Cgi("set_mode",
        <<Method("get", <<Cmd("cmd1", "mode",
                              <<Param("param1", "rec", <<>>),
                                Param("param1", "play", <<>>)>>)>>)>>)

\* DIR=<any>, and any other name with the value x
CgiImglist ==
    Cgi("get_imglist",
        <<Method("get", <<Cmd("cmd1", "DIR", <<>>),
                          Cmd("cmd1", "*", <<Param("param1", "x", <<>>)>>)>>)>>)

CgiUnused == Cgi("get_unusedcapacity", <<Method("get", <<>>)>>)
CgiDcf == Cgi("get_dcffilenum", <<Method("get", <<>>)>>)

DocFull ==
    El("oishare", "\r\n",
       <<El("version", " 4.20\r\n", <<>>),
         Element("support", Attr("func", "web"), "", <<>>),
         Element("support", Attr("func", "remote"), "", <<>>),
         CgiCaminfo, CgiUnused, CgiDcf, CgiSwitch, CgiCamprop,
         CgiSetCamprop, CgiUtc, CgiStore, CgiPut, CgiSetMode, CgiImglist>>)

\* no version, no features, only what construction itself uses
DocBasic == El("oishare", "", <<CgiCaminfo, CgiSwitch, CgiCamprop>>)

\* a device without get_camprop
DocNoCamprop ==
    El("oishare", "",
       <<El("version", "1.0", <<>>), CgiCaminfo, CgiSwitch, CgiUnused>>)

Docs == {DocFull, DocBasic, DocNoCamprop}

\* failure answers of the device
BusyBody == El("result", "", <<El("code", "7", <<>>), El("msg", " busy ", <<>>)>>)
TwoGroupBody ==
    El("result", "\r\n",
       <<El("error", "", <<El("code", "7", <<>>)>>),
         El("error", "", <<El("code", "9", <<>>)>>)>>)

Failures ==
    {Unreachable,
     Answer(XmlResponse(520, BusyBody)),
     Answer(XmlResponse(520, TwoGroupBody)),
     Answer(Response(500, "text/plain", "Internal\r\nError\n", ParseError)),
     Answer(Response(503, "text/xml", "<busy", ParseError))}

Plain(status_code) == Answer(Response(status_code, "text/plain", "OK", ParseError))

CaminfoBody == El("caminfo", "", <<El("model", "E-M10", <<>>)>>)

Prop(name, attribute, value, enum) ==
    El("desc", "",
       <<El("propname", name, <<>>), El("attribute", attribute, <<>>),
         El("value", value, <<>>)>>
       \o (IF enum = "" THEN <<>> ELSE <<El("enum", enum, <<>>)>>))

PropTakemode == Prop("takemode", "getset", "P", "iAuto P  A S\r\nM")
PropFocal == Prop("focal", "get", "14", "")
PropWb == Prop("wbvalue", "getset", "0", "")

DescList(props) == El("desclist", "\r\n", props)

\* what the device may answer to each command
CommandlistAnswers ==
    {Answer(XmlResponse(200, doc)) : doc \in Docs}
    \cup {Answer(Response(200, "text/html", "<html>", ParseError))}

CaminfoAnswers == {Answer(XmlResponse(200, CaminfoBody)), Plain(200)}

CampropAnswers ==
    {Answer(XmlResponse(200, DescList(<<PropTakemode, PropFocal, PropWb>>))),
     Answer(XmlResponse(200, DescList(<<PropTakemode>>))),
     Answer(XmlResponse(200, DescList(<<>>))),
     Plain(200)}

UnusedAnswers == {Answer(XmlResponse(200, El("unused", "1234", <<>>))), Plain(200)}

DcfAnswers ==
    {Answer(XmlResponse(200, El("dcffile", "17", <<>>))),
     Answer(XmlResponse(200, El("unused", "", <<>>)))}

OtherAnswers == {Plain(200), Plain(202)}

\* what the device may do with a request for command
Devices(command) ==
    Failures \cup
    CASE command = "get_commandlist" -> CommandlistAnswers
      [] command = "get_caminfo" -> CaminfoAnswers
      [] command = "get_camprop" -> CampropAnswers
      [] command = "get_unusedcapacity" -> UnusedAnswers
      [] command = "get_dcffilenum" -> DcfAnswers
      [] OTHER -> OtherAnswers

(***************************************************************************)
(* State                                                                   *)
(***************************************************************************)
Call(command, args) == [command |-> command, args |-> args]
NoCall == Call("", <<>>)

\* how an operation ended: the schema (self.commands) its last send_command
\* validated against and the outcome of that send_command, the exception
\* that ended the operation (exc = "" means it returned), the value it gave
Result(op, commands, exc, sent, value, ret) ==
    [op |-> op, commands |-> commands, exc |-> exc,
     err |-> sent.err, listing |-> sent.listing,
     msg |-> sent.msg, request |-> sent.request, response |-> sent.response,
     value |-> value, ret |-> ret]

NoOutcome == Outcome("", "", <<>>, "", NoRequest, NoResponse)
NoResult == Result("", <<>>, "", NoOutcome, NoneValue, "")

Logged(log, sent) ==
    IF sent.request # NoRequest THEN Append(log, sent.request) ELSE log

Prefixes == {"", "http://127.0.0.1:8080/"}

Init ==
    /\ self = NoObject
    /\ pc = "idle"
    /\ camera = NoObject
    /\ connected = FALSE
    /\ call = NoCall
    /\ result = NoResult
    /\ requests = <<>>
    /\ xml = NoElement
    /\ normalized = NoneValue

(***************************************************************************)
(* MainWindow.connect_camera and OlympusCamera.__init__                    *)
(***************************************************************************)
\* connect_camera enters OlympusCamera(prefix): the fields are initialised
\* and the schema is seeded
ConnectCamera ==
    /\ pc = "idle"
    /\ \E prefix \in Prefixes : self' = NewObject(prefix)
    /\ pc' = "get_commandlist"
    /\ call' = NoCall
    /\ result' = NoResult
    /\ requests' = <<>>
    /\ UNCHANGED <<camera, connected, xml, normalized>>

\* one step of __init__ at position here: it raises (connect_camera catches
\* it and keeps self.camera), returns the object to connect_camera, or goes
\* on to position next
InitStep(next, command, args, step) ==
    /\ call' = Call(command, args)
    /\ requests' = Logged(requests, step.sent)
    /\ result' = Result("__init__", self.commands, step.exc, step.sent, NoneValue, "")
    /\ IF step.exc # ""
       THEN /\ self' = NoObject
            /\ pc' = "idle"
            /\ UNCHANGED <<camera, connected>>
       ELSE IF step.early \/ next = "return"
       THEN /\ self' = NoObject
            /\ pc' = "idle"
            /\ camera' = step.obj
            /\ connected' = TRUE
       ELSE /\ self' = step.obj
            /\ pc' = next
            /\ UNCHANGED <<camera, connected>>
    /\ UNCHANGED <<xml, normalized>>

InitDiscovery ==
    /\ pc = "get_commandlist"
    /\ \E device \in Devices("get_commandlist") : \E step \in {init_discovery(self, device)} :
         InitStep("get_caminfo", "get_commandlist", <<>>, step)

InitCaminfo ==
    /\ pc = "get_caminfo"
    /\ \E device \in Devices("get_caminfo") : \E step \in {init_caminfo(self, device)} :
         InitStep("switch_rec", "get_caminfo", <<>>, step)

InitSwitchRec ==
    /\ pc = "switch_rec"
    /\ \E device \in Devices("switch_cammode") : \E step \in {init_switch(self, "rec", device)} :
         InitStep("get_camprop", "switch_cammode", ModeArgs("rec"), step)

InitCamprop ==
    /\ pc = "get_camprop"
    /\ \E device \in Devices("get_camprop") : \E step \in {init_camprop(self, device)} :
         InitStep("switch_play", "get_camprop", DescArgs, step)

InitSwitchPlay ==
    /\ pc = "switch_play"
    /\ \E device \in Devices("switch_cammode") : \E step \in {init_switch(self, "play", device)} :
         InitStep("return", "switch_cammode", ModeArgs("play"), step)

(***************************************************************************)
(* Calls on the session after construction                                 *)
(***************************************************************************)
Arg(key, value) == [k |-> key, v |-> value]
S(key, s) == Arg(key, StrVal(s))
B(key, s) == Arg(key, BytesVal(s))

XmlPayload == "<?xml version=\"1.0\"?><set><value>A</value></set>"

\* the calls a caller makes
Calls ==
    {Call("get_caminfo", <<>>),
     Call("get_caminfo", <<S("model", "x")>>),
     Call("get_unusedcapacity", <<>>),
     Call("get_imglist", <<S("DIR", "/DCIM")>>),
     Call("get_imglist", <<S("other", "x")>>),
     Call("get_imglist", <<S("other", "/DCIM")>>),
     Call("exec_takemotion", <<>>),
     Call("set_mode", <<S("mode", "rec")>>),
     Call("set_mode", <<S("mode", "standby")>>),
     Call("switch_cammode", <<S("mode", "rec")>>),
     Call("switch_cammode", <<S("mode", "standby")>>),
     Call("switch_cammode", <<S("speed", "rec")>>),
     Call("switch_cammode", <<>>),
     Call("get_camprop", DescArgs),
     Call("get_camprop", <<S("propname", "desclist"), S("com", "desc")>>),
     Call("get_camprop", <<S("com", "get"), S("propname", "takemode")>>),
     Call("get_camprop", <<S("com", "check")>>),
     Call("get_camprop", <<S("com", "check"), S("propname", "takemode")>>),
     Call("set_utctimediff", <<S("utctime", "20261104T101500"), S("diff", "+0100")>>),
     Call("set_camprop", <<S("com", "set"), S("propname", "takemode")>>),
     Call("set_camprop", <<S("com", "set"), S("propname", "takemode"),
                           B("post_data", XmlPayload)>>),
     Call("set_camprop", <<S("com", "set"), S("propname", "takemode"),
                           B("post_date", XmlPayload)>>),
     Call("set_camprop", <<S("com", "set"), S("propname", "takemode"),
                           S("post_date", XmlPayload)>>),
     Call("exec_storefirmware", <<>>),
     Call("exec_storefirmware", <<B("post_data", "firmware")>>),
     Call("exec_storefirmware", <<S("post_data", "firmware")>>),
     Call("put_data", <<B("post_data", XmlPayload)>>),
     Call("put_data", <<B("post_data", "<?xml ")>>),
     Call("put_data", <<B("post_data", "firmware")>>),
     Call("put_data", <<S("post_data", XmlPayload)>>),
     Call("put_data", <<B("post_date", "firmware"), B("post_data", "firmware")>>)}

Ready == pc = "idle" /\ camera # NoObject

\* faulty variant of SendCommand: a command the device refused is dropped
\* from the schema
SendCommand_dropping ==
    /\ Ready
    /\ \E c \in Calls : \E device \in Devices(c.command) :
         \E sent \in {send_command(camera, c.command, c.args, device)} :
            /\ call' = c
            /\ result' = Result("send_command", camera.commands, sent.exc, sent, NoneValue, "")
            /\ requests' = Logged(<<>>, sent)
            /\ camera' = IF sent.exc = "ResultError"
                         THEN [camera EXCEPT !.commands = DictDel(@, c.command)]
                         ELSE camera
    /\ UNCHANGED <<self, pc, connected, xml, normalized>>

\* a caller's camera.send_command(command, **args)
SendCommand ==
    /\ Ready
    /\ \E c \in Calls : \E device \in Devices(c.command) :
         \E sent \in {send_command(camera, c.command, c.args, device)} :
            /\ call' = c
            /\ result' = Result("send_command", camera.commands, sent.exc, sent, NoneValue, "")
            /\ requests' = Logged(<<>>, sent)
    /\ UNCHANGED <<self, pc, camera, connected, xml, normalized>>

\* the calls a caller makes through xml_query
Queries == {c \in Calls : startswith(c.command, "get_")}

\* faulty variant of XmlQuery: the top-level mapping is shared between
\* calls, so a mapping keeps the items of the previous result
XmlQuery_shared ==
    /\ Ready
    /\ \E c \in Queries : \E device \in Devices(c.command) :
         \E q \in {xml_query(camera, c.command, c.args, device)} :
            /\ call' = c
            /\ result' = Result("xml_query", camera.commands, q.exc, q.sent,
                                IF q.value.kind = "dict" /\ result.value.kind = "dict"
                                THEN DictValue(result.value.dict \o q.value.dict)
                                ELSE q.value, "")
            /\ requests' = Logged(<<>>, q.sent)
    /\ UNCHANGED <<self, pc, camera, connected, xml, normalized>>

\* a caller's camera.xml_query(command, **args)
XmlQuery ==
    /\ Ready
    /\ \E c \in Queries : \E device \in Devices(c.command) :
         \E q \in {xml_query(camera, c.command, c.args, device)} :
            /\ call' = c
            /\ result' = Result("xml_query", camera.commands, q.exc, q.sent, q.value, "")
            /\ requests' = Logged(<<>>, q.sent)
    /\ UNCHANGED <<self, pc, camera, connected, xml, normalized>>

\* set_clock: the mode switch, then the arguments of the second dispatch
\* are evaluated, where time.strftime("%z") (datetime.time's method, called
\* on a str) raises TypeError
SetClock ==
    /\ Ready
    /\ \E device \in Devices("switch_cammode") :
         \E sent \in {send_command(camera, "switch_cammode", ModeArgs("play"), device)} :
            /\ call' = Call("switch_cammode", ModeArgs("play"))
            /\ result' = Result("set_clock", camera.commands,
                                IF sent.exc # "" THEN sent.exc ELSE "TypeError",
                                sent, NoneValue, "")
            /\ requests' = Logged(<<>>, sent)
    /\ UNCHANGED <<self, pc, camera, connected, xml, normalized>>

\* result['unused'] of a normalized value
Subscript(value, key) ==
    IF value.kind # "dict" THEN [exc |-> "TypeError", ret |-> ""]
    ELSE IF ~DictHas(value.dict, key) THEN [exc |-> "KeyError", ret |-> ""]
    ELSE [exc |-> "", ret |-> DictGet(value.dict, key)]

get_unusedcapacity(obj, device) ==
    Let(xml_query(obj, "get_unusedcapacity", <<>>, device), LAMBDA q :
    IF q.exc # "" THEN Result("get_unusedcapacity", obj.commands, q.exc, q.sent, NoneValue, "")
    ELSE Let(Subscript(q.value, "unused"), LAMBDA r :
             Result("get_unusedcapacity", obj.commands, r.exc, q.sent, q.value, r.ret)))

GetUnusedCapacity ==
    /\ Ready
    /\ \E device \in Devices("get_unusedcapacity") :
         \E r \in {get_unusedcapacity(camera, device)} :
            /\ call' = Call("get_unusedcapacity", <<>>)
            /\ result' = r
            /\ requests' = Logged(<<>>, r)
    /\ UNCHANGED <<self, pc, camera, connected, xml, normalized>>

Next ==
    \/ ConnectCamera
    \/ InitDiscovery
    \/ InitCaminfo
    \/ InitSwitchRec
    \/ InitCamprop
    \/ InitSwitchPlay
    \/ SendCommand
    \/ XmlQuery
    \/ SetClock
    \/ GetUnusedCapacity

Spec == Init /\ [][Next]_vars

(***************************************************************************)
(* Converter specification: xml_response applied to bounded element trees  *)
(***************************************************************************)
\* the greatest number of elements of a generated tree
MaxNodes == 4

\* tag and text of the generated elements: absent text, text, text to strip
Labels ==
    {[tag |-> "b", text |-> ""], [tag |-> "b", text |-> "1"],
     [tag |-> "b", text |-> " 2\n"], [tag |-> "c", text |-> "1"]}

RECURSIVE TreesOfSize(_)
RECURSIVE ForestsOfSize(_)
\* the element trees of exactly n elements
TreesOfSize(n) ==
    {El(l.tag, l.text, f) : l \in Labels, f \in ForestsOfSize(n - 1)}

\* the sequences of sibling trees of n elements in all
ForestsOfSize(n) ==
    IF n = 0 THEN {<<>>}
    ELSE UNION {{<<t>> \o f : t \in TreesOfSize(k), f \in ForestsOfSize(n - k)} :
                k \in 1..n}

\* <a><b>1</b><c>2</c></a>
ExampleMapping == El("a", "", <<El("b", "1", <<>>), El("c", "2", <<>>)>>)

\* <a><x><b>1</b></x><y><b>2</b></y></a>
ExampleSequence ==
    El("a", "", <<El("x", "", <<El("b", "1", <<>>)>>),
                  El("y", "", <<El("b", "2", <<>>)>>)>>)

Trees ==
    UNION {TreesOfSize(n) : n \in 1..MaxNodes} \cup {ExampleMapping, ExampleSequence}

InitXml ==
    /\ self = NoObject
    /\ pc = "idle"
    /\ camera = NoObject
    /\ connected = FALSE
    /\ call = NoCall
    /\ result = NoResult
    /\ requests = <<>>
    /\ xml \in Trees
    /\ normalized = NoneValue

\* xml_response of an OK response whose body is the document of xml
Normalize ==
    /\ normalized = NoneValue
    /\ \E r \in {xml_response(XmlResponse(codes_ok, xml))} : normalized' = r.value
    /\ UNCHANGED <<self, pc, camera, connected, call, result, requests, xml>>

NextXml == Normalize

SpecXml == InitXml /\ [][NextXml]_vars

(***************************************************************************)
(* Schema specification: the discovery build, element by element, over     *)
(* bounded discovery documents, and check_valid_command on what it built   *)
(***************************************************************************)
\* the greatest number of declarations below the http_method of a document
MaxDecl == 3

\* tag and name attribute of the generated declarations ("" for no name)
DeclLabels ==
    {[tag |-> "cmd1", name |-> "a"], [tag |-> "cmd1", name |-> " b "],
     [tag |-> "param1", name |-> "a"], [tag |-> "param1", name |-> ""]}

Decl(l, children) ==
    Element(l.tag, IF l.name = "" THEN <<>> ELSE Attr("name", l.name), "", children)

RECURSIVE DeclsOfSize(_)
\* the sequences of sibling declarations of n elements in all
DeclsOfSize(n) ==
    IF n = 0 THEN {<<>>}
    ELSE UNION {{<<Decl(l, below)>> \o after :
                    l \in DeclLabels,
                    below \in DeclsOfSize(k - 1),
                    after \in DeclsOfSize(n - k)} : k \in 1..n}

Declarations == UNION {DeclsOfSize(n) : n \in 0..MaxDecl}

\* the discovery documents in which the declarations decls appear: alone,
\* beside a second http_method, in a redeclared get_commandlist, in a
\* group declared twice, before another group
DocsWith(decls) ==
    {El("oishare", "", <<Cgi("x", <<Method("get", decls)>>)>>),
     El("oishare", "", <<Cgi("x", <<Method("get", decls), Method("post", <<>>)>>)>>),
     El("oishare", "", <<Cgi("x", <<Method("post", <<>>), Method("get", decls)>>)>>),
     El("oishare", "", <<El("version", " 1.0 ", <<>>),
                         Cgi("get_commandlist", <<Method("post", decls)>>),
                         Element("support", Attr("func", "web"), "", <<>>)>>),
     El("oishare", "", <<Cgi("x", <<Method("get", <<>>)>>),
                         Cgi("x", <<Method("post", decls)>>)>>),
     El("oishare", "", <<Cgi("x", <<Method("get", decls)>>),
                         Cgi("y", <<Method("get", <<>>)>>)>>)}

DiscoveryDocs == UNION {DocsWith(decls) : decls \in Declarations}

\* the validations tried on a built schema
SchemaArgs ==
    {<<>>,
     <<S("a", "a")>>, <<S("a", "c")>>, <<S("b", "a")>>, <<S("c", "a")>>,
     <<S("a", "a"), S("a", "a")>>,
     <<S("a", "a"), S("b", "a")>>,
     <<S("b", "a"), S("a", "a")>>}

SchemaCalls ==
    {Call(command, args) : command \in {"x", "y", "get_commandlist"}, args \in SchemaArgs}
    \cup {Call("z", <<>>)}

InitSchema ==
    /\ self = NewObject("")
    /\ pc = 1
    /\ camera = NoObject
    /\ connected = FALSE
    /\ call = NoCall
    /\ result = NoResult
    /\ requests = <<>>
    /\ xml \in DiscoveryDocs
    /\ normalized = NoneValue

\* one round of the loop over the top-level elements of the discovery
\* response xml: pc is the index of the element
DiscoverElement ==
    /\ pc \in 1..Len(xml.children)
    /\ result.exc = ""
    /\ \E r \in {discovery_loop(self, <<xml.children[pc]>>)} :
          /\ self' = r.obj
          /\ result' = Result("__init__", self.commands, r.exc, NoOutcome, NoneValue, "")
          /\ pc' = IF r.exc = "" THEN pc + 1 ELSE pc
    /\ UNCHANGED <<camera, connected, call, requests, xml, normalized>>

\* check_valid_command on the schema the loop has built
CheckValidCommand ==
    /\ pc = Len(xml.children) + 1
    /\ call = NoCall
    /\ \E c \in SchemaCalls :
         \E check \in {check_valid_command(self.commands, c.command, c.args)} :
            /\ call' = c
            /\ result' = Result("check_valid_command", self.commands, check.exc,
                                Outcome(check.exc, check.err, check.listing, check.msg,
                                        NoRequest, NoResponse),
                                NoneValue, "")
    /\ UNCHANGED <<self, pc, camera, connected, requests, xml, normalized>>

NextSchema ==
    \/ DiscoverElement
    \/ CheckValidCommand

SpecSchema == InitSchema /\ [][NextSchema]_vars

(***************************************************************************)
(* Properties                                                              *)
(***************************************************************************)
\* the groups xml2dict returns for the input element
Groups == xml2dict(xml, <<>>).results

\* the mapping for a root that bears text itself
RootMapping ==
    IF strip(xml.text) # "" THEN <<[k |-> xml.tag, v |-> strip(xml.text)]>> ELSE <<>>

Item(k, v) == [k |-> k, v |-> v]

\* C9 as stated: zero groups give the empty mapping, one group gives that
\* bare mapping, several groups give the sequence of groups; the two
\* documents of the specification normalize as it says.
CollapseAsStated ==
    normalized # NoneValue =>
        /\ Len(Groups) = 0 => normalized = DictValue(<<>>)
        /\ Len(Groups) = 1 => normalized = DictValue(Groups[1])
        /\ Len(Groups) > 1 => normalized = ListValue(Groups)
        /\ xml = ExampleMapping =>
              normalized = DictValue(<<Item("b", "1"), Item("c", "2")>>)
        /\ xml = ExampleSequence =>
              normalized = ListValue(<<<<Item("b", "1")>>, <<Item("b", "2")>>>>)

\* C9 amended: zero groups give the top-level mapping, which is empty unless
\* the root element bears text itself and then maps the root's tag to its
\* stripped text; one group gives that bare mapping (never a one-element
\* sequence); several groups give the sequence of groups; the two documents
\* of the specification normalize as it says.
CollapseRule ==
    normalized # NoneValue =>
        /\ Len(Groups) = 0 => normalized = DictValue(RootMapping)
        /\ Len(Groups) = 1 => normalized = DictValue(Groups[1])
        /\ Len(Groups) > 1 => normalized = ListValue(Groups)
        /\ xml = ExampleMapping =>
              normalized = DictValue(<<Item("b", "1"), Item("c", "2")>>)
        /\ xml = ExampleSequence =>
              normalized = ListValue(<<<<Item("b", "1")>>, <<Item("b", "2")>>>>)

\* a text-bearing root has been normalized: no group, a non-empty mapping
CollapseWitness ==
    /\ normalized # NoneValue
    /\ Len(Groups) = 0
    /\ strip(xml.text) # ""
    /\ normalized = DictValue(<<Item(xml.tag, strip(xml.text))>>)

\* the operations a caller invokes on a constructed session
CallOps == {"send_command", "xml_query", "set_clock", "get_unusedcapacity"}

\* the descriptor the most recent call was validated against
Descriptor == DictGet(result.commands, call.command)

Known == DictHas(result.commands, call.command)

\* the most recent call was of a POST command and carried post_data
PostWithBody ==
    /\ result.op = "send_command"
    /\ Known
    /\ Descriptor.method = "post"
    /\ DictHas(call.args, "post_data")

\* the verdict of validation on the other pairs of the call
OtherPairs ==
    check_valid_command(result.commands, call.command, DictDel(call.args, "post_data"))

\* C1: validation runs before any HTTP request: a call that ends in a local
\* RequestError (unknown command, unsupported parameter name or value,
\* missing post_data of a POST command) has issued no request, and a call
\* that issued a request had passed validation and, for a POST command,
\* carried post_data.
ValidationBeforeRequest ==
    /\ result.exc = "RequestError" =>
          /\ result.request = NoRequest
          /\ result.op \in CallOps => requests = <<>>
    /\ result.request # NoRequest =>
          /\ Known
          /\ check_valid_command(result.commands, call.command, call.args) = Valid
          /\ Descriptor.method = "post" => DictHas(call.args, "post_data")

\* a POST command without named arguments dispatched without post_data
MissingBodyWitness ==
    /\ result.op = "send_command"
    /\ call = Call("exec_storefirmware", <<>>)
    /\ Known
    /\ Descriptor = CmdDescr("post", NoneNode)
    /\ result.exc = "RequestError"
    /\ result.err = "missing_post_data"
    /\ requests = <<>>

\* C2 as stated: for a POST command, post_data carrying bytes is accepted
\* whatever the current node is and does not move it, so validation ends as
\* it does on the other pairs alone and, when those pass, the request is
\* dispatched.
PostDataAcceptedUnconditionally ==
    (PostWithBody /\ DictGet(call.args, "post_data").type = "bytes") =>
        IF OtherPairs = Valid
        THEN result.err = "" /\ result.request # NoRequest
        ELSE result.exc = OtherPairs.exc /\ result.err = OtherPairs.err
             /\ result.msg = OtherPairs.msg

\* C3 as stated: for a POST command, post_data that is not bytes (the other
\* pairs being valid) fails with the RequestError that reports the payload
\* type, and no request is sent.
NonBytesPostDataRejected ==
    (PostWithBody /\ DictGet(call.args, "post_data").type # "bytes"
     /\ OtherPairs = Valid) =>
        /\ result.exc = "RequestError"
        /\ result.err = "payload_type"
        /\ result.request = NoRequest

\* the tokens of a call in the order validation descends on them: the name
\* and then the value of each pair (a bytes value equals no entry)
Tokens(args) ==
    [i \in 1..(2 * Len(args)) |->
        IF i % 2 = 1
        THEN [token |-> args[(i + 1) \div 2].k, str |-> TRUE]
        ELSE [token |-> args[i \div 2].v.s, str |-> args[i \div 2].v.type = "str"]]

RECURSIVE Walk(_, _, _)
\* the descent rule of C4 applied from token i on: where it ends
Walk(node, tokens, i) ==
    IF i > Len(tokens) THEN [end |-> "valid", at |-> 0, listing |-> <<>>]
    ELSE IF node.null THEN [end |-> "null", at |-> i, listing |-> <<>>]
    ELSE IF tokens[i].str /\ DictHas(node.entries, tokens[i].token)
    THEN Walk(DictGet(node.entries, tokens[i].token), tokens, i + 1)
    ELSE IF DictHas(node.entries, ANY_PARAMETER)
    THEN Walk(DictGet(node.entries, ANY_PARAMETER), tokens, i + 1)
    ELSE [end |-> "fail", at |-> i, listing |-> DictKeys(node.entries)]

\* {set_mode: {mode: {rec: null, play: null}}}
SetModeDescr ==
    CmdDescr("get", MapNode(<<Item("mode", MapNode(<<Item("rec", NoneNode),
                                                     Item("play", NoneNode)>>))>>))

DescentErrors == {"unsupported_parameter", "unsupported_value", "not_iterable"}

\* C4: every descent step on a non-null node takes the literal entry if
\* there is one, else the wildcard entry, else validation fails with a
\* RequestError that lists exactly the entries of that node (an
\* unsupported-parameter error on a name, an unsupported-value error on a
\* value); for {set_mode: {mode: {rec: null, play: null}}}, mode=rec passes
\* and mode=standby fails with an unsupported-value error listing rec, play.
DescentRule ==
    /\ (result.op # "" /\ Known
        /\ ~(Descriptor.method = "post" /\ DictHas(call.args, BODY_KEY))) =>
          \E w \in {Walk(Descriptor.args, Tokens(call.args), 1)} :
             /\ w.end = "fail" =>
                   /\ result.exc = "RequestError"
                   /\ result.request = NoRequest
                   /\ result.listing = w.listing
                   /\ result.err = IF w.at % 2 = 1 THEN "unsupported_parameter"
                                                   ELSE "unsupported_value"
             /\ w.end = "valid" => result.err \notin DescentErrors
    /\ (Known /\ call.command = "set_mode" /\ Descriptor = SetModeDescr) =>
          /\ call.args = <<S("mode", "rec")>> => result.err = ""
          /\ call.args = <<S("mode", "standby")>> =>
                /\ result.exc = "RequestError"
                /\ result.err = "unsupported_value"
                /\ result.listing = <<"rec", "play">>

\* mode=standby has been refused against {mode: {rec: null, play: null}}
DescentWitness ==
    /\ result.op = "send_command"
    /\ call = Call("set_mode", <<S("mode", "standby")>>)
    /\ Known
    /\ Descriptor = SetModeDescr
    /\ result.err = "unsupported_value"
    /\ result.listing = <<"rec", "play">>
    /\ result.msg = "Error in set_mode: 'standby' in mode=standby not supported; "
                    \o "supported:mode=rec, mode=play."

\* construction has ended, by return or by raise
ConstructionEnded == pc = "idle" /\ result.op = "__init__"

Issued(mode) == \E i \in 1..Len(requests) : requests[i].params = ModeArgs(mode)

\* the switch to record mode was issued and returned
RecSwitched ==
    /\ Issued("rec")
    /\ ~(call = Call("switch_cammode", ModeArgs("rec")) /\ result.exc # "")

\* C5 as stated: whenever construction ends after the switch to record mode
\* succeeded, switch_cammode mode=play has been issued.
ModeRestored == (ConstructionEnded /\ RecSwitched) => Issued("play")

\* the dispatches of construction, in order
ConstructionSteps ==
    <<Call("get_commandlist", <<>>),
      Call("get_caminfo", <<>>),
      Call("switch_cammode", ModeArgs("rec")),
      Call("get_camprop", DescArgs),
      Call("switch_cammode", ModeArgs("play"))>>

\* the number of dispatches behind position p of construction
Position(p) ==
    CASE p = "get_commandlist" -> 0
      [] p = "get_caminfo" -> 1
      [] p = "switch_rec" -> 2
      [] p = "get_camprop" -> 3
      [] p = "switch_play" -> 4

UrlPrefixes == {IF prefix # "" THEN prefix ELSE DEFAULT_URL_PREFIX : prefix \in Prefixes}

\* request i of the log is the dispatch of step i
IsStep(request, step) ==
    /\ request.params = step.args
    /\ \E prefix \in UrlPrefixes : request.url = prefix \o step.command \o ".cgi"

\* what the discovery response declares is in the object
BuiltFrom(root, obj) ==
    \A i \in 1..Len(root.children) :
        \E e \in {root.children[i]} :
            /\ (e.tag = "cgi" /\ \E j \in 1..Len(e.children) :
                                    e.children[j].tag = "http_method") =>
                  DictHas(obj.commands, DictGet(e.attrib, "name"))
            /\ e.tag = "support" => DictGet(e.attrib, "func") \in obj.supported
            /\ e.tag = "version" => DictHas(obj.versions, "version")

\* C6: construction dispatches get_commandlist, get_caminfo, switch_cammode
\* mode=rec, get_camprop com=desc propname=desclist, switch_cammode mode=play
\* in this order and nothing else; the schema holds only the discovery
\* command (get, no arguments) when discovery is dispatched, which therefore
\* passes validation; schema, versions and features are then built from
\* the discovery response; the later steps are validated against that
\* built schema.
ConstructionOrder ==
    /\ (pc # "idle" \/ result.op = "__init__") =>
          /\ Len(requests) <= Len(ConstructionSteps)
          /\ \A i \in 1..Len(requests) : IsStep(requests[i], ConstructionSteps[i])
    /\ pc # "idle" => Len(requests) = Position(pc)
    /\ pc = "get_commandlist" =>
          self.commands = <<Item("get_commandlist", CmdDescr("get", NoneNode))>>
    /\ pc = "get_caminfo" =>
          /\ call = ConstructionSteps[1]
          /\ BuiltFrom(result.response.tree.root, self)
    /\ result.op = "__init__" =>
          /\ \E k \in 1..Len(ConstructionSteps) :
                /\ call = ConstructionSteps[k]
                /\ Len(requests) \in {k - 1, k}
                /\ result.exc = "" => Len(requests) = k
                /\ pc # "idle" => Position(pc) = k
          /\ call = ConstructionSteps[1] =>
                /\ result.commands = SeedCommands
                /\ result.exc # "RequestError"
                /\ result.request # NoRequest
          /\ (call # ConstructionSteps[1] /\ Known) =>
                /\ result.err # "unsupported_command"
                /\ result.commands # SeedCommands
          /\ (call # ConstructionSteps[1] /\ ~Known) =>
                result.err = "unsupported_command"

\* construction has returned: the five dispatches are in the log
ConstructionReturned ==
    /\ ConstructionEnded
    /\ result.exc = ""
    /\ Len(requests) = 5
    /\ IsStep(requests[5], ConstructionSteps[5])
    /\ camera # NoObject

ConstructionCommands == {"get_caminfo", "switch_cammode", "get_camprop"}

SessionReadOnly ==
    [][result'.op \in CallOps =>
          /\ camera' = camera
          /\ connected' = connected
          /\ result'.commands = camera.commands]_vars

\* a call has been refused by the device on a constructed session
RefusedCall ==
    /\ result.op = "xml_query"
    /\ result.exc = "ResultError"
    /\ camera # NoObject
    /\ result.commands = camera.commands

\* the most recent send_command got an answer from the device
Answered ==
    /\ result.op = "send_command"
    /\ result.request # NoRequest
    /\ result.response # NoResponse

IsOk(response) == response.status_code \in {200, 202}

DeclaredXml(response) ==
    /\ DictHas(response.headers, "Content-Type")
    /\ DictGet(response.headers, "Content-Type") = "text/xml"

\* 'k=v' of the items of a mapping, joined with ', '
Pairs(d) == join(", ", [i \in 1..Len(d) |-> d[i].k \o "=" \o d[i].v])

RECURSIVE WithoutLineBreaks(_)
\* the text without its carriage returns and line feeds
WithoutLineBreaks(s) ==
    Let(First(1, Len(s), LAMBDA i : Char(s, i) \in {"\r", "\n"}), LAMBDA at :
        IF at > Len(s) THEN s
        ELSE SubSeq(s, 1, at - 1) \o WithoutLineBreaks(From(s, at + 1)))

\* the message when the body is the mapping d, else the text given
MessageOf(response, text) ==
    \E body \in {xml_response(response).value} :
        result.msg = IF body.kind = "dict" THEN Pairs(body.dict) ELSE text

\* C10 as stated: a response with status 200 or 202 is returned; every other
\* status raises a ResultError whose message part is the ', '-joined
\* key=value pairs when the body normalizes to a single mapping and else
\* the raw text without its line breaks; code=7, msg=busy gives exactly
\* "code=7, msg=busy".
InterpretationAsStated ==
    Answered =>
        /\ IsOk(result.response) => result.exc = ""
        /\ ~IsOk(result.response) =>
              /\ result.exc = "ResultError"
              /\ MessageOf(result.response, WithoutLineBreaks(result.response.text))
        /\ (~IsOk(result.response) /\ result.response.tree = Parsed(BusyBody)) =>
              result.msg = "code=7, msg=busy"

\* C10 amended: a response with status 200 or 202 is returned; every other
\* status raises a ResultError, unless the response is declared text/xml and
\* its body is no well-formed document, in which case the parse error is
\* raised; the message part of the ResultError is the ', '-joined key=value
\* pairs when the body normalizes to a single mapping and else the raw text
\* with every "\r\n" pair removed (a lone "\r" or "\n" stays); code=7,
\* msg=busy gives exactly "code=7, msg=busy".
ResponseInterpretation ==
    Answered =>
        /\ IsOk(result.response) => result.exc = ""
        /\ (~IsOk(result.response) /\ DeclaredXml(result.response)
            /\ ~result.response.tree.ok) => result.exc = "ParseError"
        /\ (~IsOk(result.response)
            /\ ~(DeclaredXml(result.response) /\ ~result.response.tree.ok)) =>
              /\ result.exc = "ResultError"
              /\ MessageOf(result.response, replace_crlf(result.response.text))
        /\ (~IsOk(result.response) /\ result.response.tree = Parsed(BusyBody)) =>
              result.msg = "code=7, msg=busy"
        /\ result.response.text = "Internal\r\nError\n" =>
              result.msg = "InternalError\n"

\* the device refused a dispatch with the body code=7, msg=busy
BusyRefusal ==
    /\ Answered
    /\ result.response.status_code = 520
    /\ result.response.tree = Parsed(BusyBody)
    /\ result.exc = "ResultError"
    /\ result.msg = "code=7, msg=busy"

\* a round of the discovery loop has just ended without raising
Discovered == result.op = "__init__" /\ result.exc = "" /\ pc > 1

\* a command group with one http_method of type get and no declarations
PlainGetGroup(e) ==
    /\ e.tag = "cgi"
    /\ DictHas(e.attrib, "name")
    /\ Len(e.children) = 1
    /\ e.children[1].tag = "http_method"
    /\ DictHas(e.children[1].attrib, "type")
    /\ DictGet(e.children[1].attrib, "type") = "get"
    /\ e.children[1].children = <<>>

\* C11: when the discovery loop has processed a command group with one
\* http_method of type get and no declarations, the descriptor under the
\* group's name is (get, null); validation of a command with that
\* descriptor passes without arguments and fails with an
\* unsupported-parameter error with any argument.
PlainGetCommand ==
    /\ (Discovered /\ PlainGetGroup(xml.children[pc - 1])) =>
          /\ DictHas(self.commands, DictGet(xml.children[pc - 1].attrib, "name"))
          /\ DictGet(self.commands, DictGet(xml.children[pc - 1].attrib, "name"))
                = CmdDescr("get", NoneNode)
    /\ (result.op = "check_valid_command" /\ Known
        /\ Descriptor = CmdDescr("get", NoneNode)) =>
          IF call.args = <<>>
          THEN result.exc = ""
          ELSE /\ result.exc = "RequestError"
               /\ result.err = "unsupported_parameter"
               /\ result.listing = <<>>

\* an argument has been refused for the plain get command y
PlainGetWitness ==
    /\ result.op = "check_valid_command"
    /\ PlainGetGroup(xml.children[Len(xml.children)])
    /\ call = Call("y", <<S("a", "a")>>)
    /\ Known
    /\ Descriptor = CmdDescr("get", NoneNode)
    /\ result.err = "unsupported_parameter"
    /\ result.msg = "Error in y: 'a' in a=a not supported."

\* an xml_query has returned
Queried == result.op = "xml_query" /\ result.exc = ""

Refusal(n, token) ==
    "Error in " \o call.command \o ": '" \o token \o "' in "
    \o call.args[n].k \o "=" \o Fmt(call.args[n].v) \o " not supported"

\* C13: validation descends from the command's argument schema with one
\* current node over the names and values of the pairs in their order, pair
\* k+1 starting at the node pair k's value reached: the call is accepted
\* exactly when every token descends; a pair reached at a null node is
\* refused with the unsupported-parameter error that lists nothing; the
\* error raised is about the first token that cannot descend, whatever the
\* pairs after it are.
OrderedWalk ==
    (result.op = "check_valid_command" /\ Known
     /\ ~(Descriptor.method = "post" /\ DictHas(call.args, BODY_KEY))) =>
        \E w \in {Walk(Descriptor.args, Tokens(call.args), 1)} :
           /\ w.end = "valid" <=> result.exc = ""
           /\ w.end # "valid" =>
                 \E n \in {(w.at + 1) \div 2} :
                    /\ result.exc = "RequestError"
                    /\ w.at % 2 = 1 =>
                          /\ result.err = "unsupported_parameter"
                          /\ startswith(result.msg, Refusal(n, call.args[n].k))
                    /\ w.at % 2 = 0 =>
                          /\ result.err = "unsupported_value"
                          /\ startswith(result.msg, Refusal(n, call.args[n].v.s))
                    /\ w.end = "null" =>
                          /\ w.at % 2 = 1
                          /\ result.listing = <<>>
                          /\ result.msg = Refusal(n, call.args[n].k) \o "."
                    /\ check_valid_command(result.commands, call.command,
                                           SubSeq(call.args, 1, n))
                       = [exc |-> result.exc, err |-> result.err,
                          listing |-> result.listing, msg |-> result.msg]

\* b=a, a=a has been refused at its first pair by a schema that accepts the
\* same pairs as a=a, b=a
OrderWitness ==
    /\ result.op = "check_valid_command"
    /\ call = Call("x", <<S("b", "a"), S("a", "a")>>)
    /\ Known
    /\ result.err = "unsupported_parameter"
    /\ result.listing = <<"a">>
    /\ check_valid_command(result.commands, "x", <<S("a", "a"), S("b", "a")>>) = Valid

\* a=a, a=a has been refused at its second pair, reached at a null node
NullNodeWitness ==
    /\ result.op = "check_valid_command"
    /\ call = Call("x", <<S("a", "a"), S("a", "a")>>)
    /\ Known
    /\ Descriptor.args = MapNode(<<Item("a", MapNode(<<Item("a", NoneNode)>>))>>)
    /\ result.msg = "Error in x: 'a' in a=a not supported."

\* the declared name of a declaration, '*' for an unnamed one
DeclName(e) ==
    IF DictHas(e.attrib, "name") THEN strip(DictGet(e.attrib, "name"))
    ELSE ANY_PARAMETER

\* the positions of elems whose name no earlier position declares, ascending
FirstDecls(elems) ==
    Let({i \in 1..Len(elems) :
            \A j \in 1..(i - 1) : DeclName(elems[j]) # DeclName(elems[i])},
        LAMBDA firsts :
            CHOOSE f \in [1..Cardinality(firsts) -> firsts] :
                \A a, b \in 1..Cardinality(firsts) : a < b => f[a] < f[b])

\* the last declaration of elems named like elems[i]
LastDecl(elems, i) ==
    elems[CHOOSE j \in 1..Len(elems) :
             /\ DeclName(elems[j]) = DeclName(elems[i])
             /\ \A l \in (j + 1)..Len(elems) : DeclName(elems[l]) # DeclName(elems[i])]

RECURSIVE ParamRule(_), CmdRule(_)
\* the parameter-list rule as stated, over sibling declarations
ParamRule(elems) ==
    IF \E i \in 1..Len(elems) : startswith(elems[i].tag, "cmd")
    THEN Let(elems[CHOOSE i \in 1..Len(elems) :
                      /\ startswith(elems[i].tag, "cmd")
                      /\ \A j \in 1..(i - 1) : ~startswith(elems[j].tag, "cmd")],
             LAMBDA sub :
                MapNode(<<Item(ANY_PARAMETER,
                               MapNode(<<Item(DeclName(sub),
                                              ParamRule(sub.children))>>))>>))
    ELSE IF elems = <<>> THEN MapNode(<<Item(ANY_PARAMETER, NoneNode)>>)
    ELSE Let(FirstDecls(elems), LAMBDA f :
             MapNode([n \in 1..Len(f) |->
                        Item(DeclName(elems[f[n]]),
                             CmdRule(LastDecl(elems, f[n]).children))]))

\* the command-list rule as stated, over sibling commands
CmdRule(elems) ==
    IF elems = <<>> THEN NoneNode
    ELSE Let(FirstDecls(elems), LAMBDA f :
             MapNode([n \in 1..Len(f) |->
                        Item(DeclName(elems[f[n]]),
                             ParamRule(LastDecl(elems, f[n]).children))]))

\* the http_method children of a command group
Methods(cgi) ==
    SelectSeq(cgi.children, LAMBDA m : m.tag = "http_method")

\* the element discovery has just registered is a command group that
\* declares a method
Registered ==
    /\ Discovered
    /\ xml.children[pc - 1].tag = "cgi"
    /\ Methods(xml.children[pc - 1]) # <<>>

\* C14: the argument schema registered for a command group is the
\* command-list rule of its declarations: null for no commands, else each
\* command's name mapped to the parameter-list rule of its children, which
\* is {'*': {name: rule of the children}} for a sub-command, {'*': null} for
\* no declarations, and else each parameter's name ('*' if unnamed) mapped
\* to the command-list rule of its children; a token matched against
\* {'*': null} takes the wildcard entry, so any value passes.
SchemaRule ==
    /\ Registered =>
          \E cgi \in {xml.children[pc - 1]} :
             \E m \in {Methods(cgi)[Len(Methods(cgi))]} :
                DictGet(self.commands, DictGet(cgi.attrib, "name")).args
                = CmdRule(m.children)
    /\ (result.op = "check_valid_command" /\ Known /\ Len(call.args) = 1
        /\ ~Descriptor.args.null
        /\ DictHas(Descriptor.args.entries, call.args[1].k)
        /\ DictGet(Descriptor.args.entries, call.args[1].k)
           = MapNode(<<Item(ANY_PARAMETER, NoneNode)>>)) =>
          result.exc = ""

\* a group declaring a command with a nested sub-command has been registered
SubCommandWitness ==
    /\ Registered
    /\ DictHas(self.commands, "x")
    /\ DictGet(self.commands, "x").args
       = MapNode(<<Item("a", MapNode(<<Item(ANY_PARAMETER,
                    MapNode(<<Item("b", MapNode(<<Item(ANY_PARAMETER, NoneNode)>>))>>))>>))>>)

\* the children of a property description that carry tag
Fields(desc, tag) == SelectSeq(desc.children, LAMBDA f : f.tag = tag)

\* a description of a read-write property that declares an enum
Settable(desc) ==
    /\ Fields(desc, "attribute") # <<>>
    /\ Fields(desc, "attribute")[1].text = "getset"
    /\ Fields(desc, "enum") # <<>>

\* the enum map of a property-description document
EnumMap(root) ==
    Let(SelectSeq(root.children, Settable), LAMBDA descs :
        [i \in 1..Len(descs) |->
            Item(Fields(descs[i], "propname")[1].text,
                 split(Fields(descs[i], "enum")[1].text))])

\* construction has just had its property-description query answered with
\* a well-formed description of n properties
Described(n) ==
    /\ result.op = "__init__"
    /\ call = Call("get_camprop", DescArgs)
    /\ result.response # NoResponse
    /\ IsOk(result.response)
    /\ DeclaredXml(result.response)
    /\ result.response.tree.ok
    /\ Len(result.response.tree.root.children) = n

\* C15 as stated: whatever number of properties the device describes (zero,
\* one or several), construction goes on after the property-description
\* query with camprop_name2values holding exactly the read-write properties
\* that declare an enum, each with the whitespace-split list of its values.
EnumMapRetained ==
    \A n \in 0..3 :
        Described(n) =>
            /\ result.exc = ""
            /\ pc = "switch_play"
            /\ self.camprop_name2values
               = Defined(EnumMap(result.response.tree.root))

\* the same for the numbers of properties other than one
EnumMapOfSeveral ==
    \A n \in {0, 3} :
        Described(n) =>
            /\ result.exc = ""
            /\ pc = "switch_play"
            /\ self.camprop_name2values
               = Defined(EnumMap(result.response.tree.root))

\* construction has raised on the description of exactly one property
SingleDescriptionRaised ==
    /\ Described(1)
    /\ result.exc = "TypeError"
    /\ pc = "idle"

\* an element that bears text is a leaf
Leaf(e) == strip(e.text) # ""

\* the group of an element: its leaf children by tag, a tag at the place of
\* its first leaf and with the text of its last
OwnGroup(e) ==
    Let(SelectSeq(e.children, Leaf), LAMBDA leaves :
    Let({i \in 1..Len(leaves) :
            \A j \in 1..(i - 1) : leaves[j].tag # leaves[i].tag}, LAMBDA firsts :
    Let(CHOOSE f \in [1..Cardinality(firsts) -> firsts] :
            \A a, b \in 1..Cardinality(firsts) : a < b => f[a] < f[b], LAMBDA f :
        [n \in 1..Len(f) |->
            Item(leaves[f[n]].tag,
                 strip(leaves[CHOOSE j \in 1..Len(leaves) :
                                 /\ leaves[j].tag = leaves[f[n]].tag
                                 /\ \A l \in (j + 1)..Len(leaves) :
                                       leaves[l].tag # leaves[f[n]].tag].text))])))

RECURSIVE GroupsOf(_), GroupsOfAll(_)
\* the groups of an element as stated: those of its descendants, child by
\* child in document order, and then its own group if it has one
GroupsOf(e) ==
    IF Leaf(e) THEN <<>>
    ELSE GroupsOfAll(e.children)
         \o (IF OwnGroup(e) # <<>> THEN <<OwnGroup(e)>> ELSE <<>>)

GroupsOfAll(elems) ==
    IF elems = <<>> THEN <<>>
    ELSE GroupsOf(Head(elems)) \o GroupsOfAll(Tail(elems))

\* C16: the groups of a normalized document are, for every element without
\* text, the groups of its children in document order followed by the
\* element's own group, which merges its leaf children into one mapping
\* (the last leaf of a tag gives the value); groups of different elements
\* stay separate entries of the sequence.
GroupingRule ==
    normalized # NoneValue =>
        \E g \in {GroupsOf(xml)} :
           /\ Len(g) > 1 => normalized = ListValue(g)
           /\ Len(g) = 1 => normalized = DictValue(g[1])
           /\ Len(g) = 0 => normalized.kind = "dict"

\* <b><c>1</c><b><b>1</b></b></b> has been normalized: the group of the
\* inner element comes before the root's own group
GroupingWitness ==
    /\ xml = El("b", "", <<El("c", "1", <<>>),
                           El("b", "", <<El("b", "1", <<>>)>>)>>)
    /\ normalized = ListValue(<<<<Item("b", "1")>>, <<Item("c", "1")>>>>)

\* <b><b>1</b><c>1</c><b> 2\n</b></b> has been normalized: one mapping, the
\* last b gives the value
MergeWitness ==
    /\ xml = El("b", "", <<El("b", "1", <<>>), El("c", "1", <<>>),
                           El("b", " 2\n", <<>>)>>)
    /\ normalized = DictValue(<<Item("b", "2"), Item("c", "1")>>)

RECURSIVE NameLevel(_), ValueLevel(_)
\* a node names are matched against: null, or a non-empty mapping to
\* value-level nodes
NameLevel(node) ==
    \/ node.null
    \/ /\ node.entries # <<>>
       /\ \A i \in 1..Len(node.entries) : ValueLevel(node.entries[i].v)

\* a node values are matched against: a non-empty mapping to name-level nodes
ValueLevel(node) ==
    /\ ~node.null
    /\ node.entries # <<>>
    /\ \A i \in 1..Len(node.entries) : NameLevel(node.entries[i].v)

\* C17: the argument schema of every command the discovery build has
\* registered alternates levels from a name-level root (null or a
\* non-empty mapping) over value-level nodes (never null, never empty), and
\* validation of any command with string-valued arguments against such a
\* schema returns or raises RequestError, never another failure.
LevelAlternation ==
    /\ \A i \in 1..Len(self.commands) : NameLevel(self.commands[i].v.args)
    /\ result.op = "check_valid_command" =>
          /\ \A i \in 1..Len(call.args) : call.args[i].v.type = "str"
          /\ result.exc \in {"", "RequestError"}
          /\ result.err # "not_iterable"

\* a value has descended by the wildcard of a command declared without
\* parameters, and the call was accepted
WildcardValueWitness ==
    /\ result.op = "check_valid_command"
    /\ call = Call("x", <<S("a", "c")>>)
    /\ Known
    /\ Descriptor.args = MapNode(<<Item("a", MapNode(<<Item(ANY_PARAMETER, NoneNode)>>))>>)
    /\ result.exc = ""

\* the names registered in a schema
Names(commands) == {commands[i].k : i \in 1..Len(commands)}

\* one descriptor per name, the discovery command among the names
OnePerName ==
    /\ \A i, j \in 1..Len(self.commands) :
          self.commands[i].k = self.commands[j].k => i = j
    /\ "get_commandlist" \in Names(self.commands)

\* the step registers the command group cgi: afterwards its name has the
\* descriptor of the last http_method the group declares, and every other
\* name has the one it had
Registers(cgi) ==
    Let(Methods(cgi), LAMBDA methods :
    Let(DictGet(cgi.attrib, "name"), LAMBDA name :
        /\ Names(self'.commands) = Names(self.commands) \cup {name}
        /\ DictGet(self'.commands, name)
           = CmdDescr(DictGet(methods[Len(methods)].attrib, "type"),
                      CmdRule(methods[Len(methods)].children))
        /\ \A i \in 1..Len(self.commands) :
              self.commands[i].k # name =>
                 DictGet(self'.commands, self.commands[i].k) = self.commands[i].v))

\* C18: the schema holds one descriptor per command name and always names
\* get_commandlist; no step of discovery removes a name; a step over a
\* command group that declares http_method children leaves under the
\* group's name the descriptor (method and argument schema) of the last of
\* them in document order, replacing the one registered before under that
\* name, and leaves every other descriptor as it was; a step over anything
\* else leaves the schema as it was.
RegistrationRule ==
    /\ []OnePerName
    /\ [][/\ Names(self.commands) \subseteq Names(self'.commands)
          /\ (pc \in 1..Len(xml.children) /\ pc' = pc + 1) =>
                IF xml.children[pc].tag = "cgi" /\ Methods(xml.children[pc]) # <<>>
                THEN Registers(xml.children[pc])
                ELSE self'.commands = self.commands]_vars

\* a later group named get_commandlist has replaced the descriptor of the
\* discovery command, and the schema still has one descriptor under the name
ReplacedWitness ==
    /\ Discovered
    /\ xml.children[pc - 1].tag = "cgi"
    /\ DictGet(xml.children[pc - 1].attrib, "name") = "get_commandlist"
    /\ Len(self.commands) = 1
    /\ self.commands[1].k = "get_commandlist"
    /\ self.commands[1].v.method = "post"
    /\ ~self.commands[1].v.args.null

\* a group with two http_method children has been registered: the
\* descriptor is that of the second
LastMethodWitness ==
    /\ Discovered
    /\ xml.children[pc - 1].tag = "cgi"
    /\ Len(Methods(xml.children[pc - 1])) = 2
    /\ DictHas(self.commands, "x")
    /\ DictGet(self.commands, "x") = CmdDescr("post", NoneNode)
    /\ Methods(xml.children[pc - 1])[1].children # <<>>

\* HEADERS with the content type of an XML payload
XmlHeaders == HEADERS \o <<Item("Content-type", "text/plain;charset=utf-8")>>

\* the payload of a request is bytes, longer than the XML declaration
\* prefix, and begins with it
XmlBody(request) ==
    /\ request.method = "post"
    /\ request.data.type = "bytes"
    /\ Len(request.data.s) > 6
    /\ startswith(request.data.s, "<?xml ")

\* the requests the state records: that of the latest dispatch and those logged
Dispatched == {result.request} \cup {requests[i] : i \in 1..Len(requests)}

\* C19 as stated: every POST request whose payload begins with '<?xml ' is
\* sent with the content-type override, and every other request with
\* exactly the fixed headers.
OverrideAsStated ==
    \A request \in Dispatched \ {NoRequest} :
        request.headers = IF request.method = "post"
                             /\ startswith(request.data.s, "<?xml ")
                          THEN XmlHeaders ELSE HEADERS

\* C19: a POST request whose payload is bytes, longer than six bytes and
\* beginning with '<?xml ' is sent with the fixed headers and Content-type
\* text/plain;charset=utf-8; every other request, whatever was dispatched
\* before it, is sent with exactly the fixed headers Host and User-Agent.
OverrideScope ==
    \A request \in Dispatched \ {NoRequest} :
        request.headers = IF XmlBody(request) THEN XmlHeaders ELSE HEADERS

\* an XML payload has been posted with the override
XmlPosted ==
    /\ result.op = "send_command"
    /\ call = Call("put_data", <<B("post_data", XmlPayload)>>)
    /\ result.request # NoRequest
    /\ result.request.headers = XmlHeaders
    /\ result.request.data = BytesVal(XmlPayload)

\* the bare prefix has been posted without the override
PrefixPosted ==
    /\ result.op = "send_command"
    /\ call = Call("put_data", <<B("post_data", "<?xml ")>>)
    /\ result.request # NoRequest
    /\ result.request.headers = HEADERS

====
